---- MODULE Spec2Model ----
(***************************************************************************)
(* GDP router/switch: the per-packet pipeline of main.rs (parse, AEAD      *)
(* decrypt, GDP parse, dispatch on the action, header rewrite, AEAD        *)
(* encrypt, send), the GDP header codec of gdp.rs, the RIB handlers of     *)
(* rib.rs and the AEAD wrapper of dtls.rs.                                 *)
(*                                                                         *)
(* A packet is a record of the Ethernet/IPv4/UDP header fields the code    *)
(* reads or writes plus `payload`, the bytes of the mbuf that follow the   *)
(* UDP header.  Buffer offsets in the model are those of the UDP datagram: *)
(* header_len() is the first payload byte, len() is the end of the mbuf.   *)
(*                                                                         *)
(* Specifications: Spec (the two port workers of main.rs), SpecAead        *)
(* (encrypt_gdp then decrypt_gdp on one packet), SpecBounce (bounce_udp on *)
(* one envelope), SpecGdp (the Gdp view: try_parse, try_push, setters,     *)
(* reconcile, get_certs, set_certs on one packet), SpecExpire (the store   *)
(* with the periodic expiry task that prodsetup.rs registers) and SpecRace *)
(* (two switch workers and the expiry task on one store, the Forward arm   *)
(* in the two steps in which it reads the store).                          *)
(***************************************************************************)
EXTENDS Integers, Sequences, FiniteSets, TLC

VARIABLES
    overflow_checks,    \* build profile: TRUE = integer overflow panics (dev), FALSE = wraps (release)
    forwarding_table,   \* store1.forwarding_table, the switch's GdpName -> Ipv4Addr map
    rib_table,          \* store2.forwarding_table, the RIB node's map
    panicked,           \* per port worker: "" while alive, else the function that panicked
    rx_port,            \* port of the packet processed last ("none" before the first)
    rx,                 \* the packet processed last, as received
    tx,                 \* the packets handed to send for it, in order
    prev_table,         \* forwarding table of rx_port's store before rx was processed
    aead_pc,            \* AEAD round trip: "plain", "encrypted", "decrypted" or "panic"
    aead_orig,          \* AEAD round trip: the packet before encrypt_gdp
    aead_buf,           \* AEAD round trip: the packet now
    op_pc,              \* single function runs: what has been applied to op_pkt so far
    op_in,              \* single function runs: the packet at the start
    op_pkt,             \* single function runs: the packet now
    op_res,             \* single function runs: the last result (certificates, Err)
    entry_ttl,          \* active expiry: per entry of forwarding_table, the ticks left (-1: static)
    inserts,            \* active expiry: inserts done so far
    evicted,            \* active expiry: the names the last run of the expiry task removed
    worker,             \* workers sharing a store: per worker, its place in the pipeline and its packet
    nacked,             \* workers sharing a store: the names a Nack has been transmitted for
    learned             \* workers sharing a store: per nacked name, the address a RibReply installed last

\* a variable group that a specification leaves alone
unit_vars == << op_pc, op_in, op_pkt, op_res >>

expire_vars == << entry_ttl, inserts, evicted >>

aead_vars == << aead_pc, aead_orig, aead_buf >>

race_vars == << worker, nacked, learned >>

pipeline_vars == << rib_table, panicked, rx_port, rx, tx, prev_table >>

vars == << overflow_checks, forwarding_table, rib_table, panicked, rx_port, rx,
           tx, prev_table, aead_pc, aead_orig, aead_buf, op_pc, op_in, op_pkt,
           op_res, entry_ttl, inserts, evicted, worker, nacked, learned >>

(***************************************************************************)
(* Bounds                                                                  *)
(***************************************************************************)
\* longest application data region of a generated Forward packet
MaxData == 1
\* longest payload of the AEAD round trip
MaxPlain == 3

(***************************************************************************)
(* Bytes and buffers                                                       *)
(***************************************************************************)
\* Result and Option: the empty tuple is Err / None, a tuple of one is Ok / Some
Err == << >>

Ok(v) == << v >>

None == << >>

Some(v) == << v >>

is_ok(r) == r # << >>

unwrap(r) == r[1]

Zeros(n) == [i \in 1..n |-> 0]

BE16(n) == << (n \div 256) % 256, n % 256 >>

BE32(n) == << (n \div 16777216) % 256, (n \div 65536) % 256, (n \div 256) % 256, n % 256 >>

\* big-endian read of `n` bytes that follow the first `off` bytes of b
RECURSIVE ReadBE(_, _, _)
ReadBE(b, off, n) ==
    IF n = 0 THEN 0 ELSE ReadBE(b, off, n - 1) * 256 + b[off + n]

\* Mbuf::write_data_slice(off, s): fails, writing nothing, when s does not fit
write_data_slice(b, off, s) ==
    IF off + Len(s) > Len(b) THEN b
    ELSE SubSeq(b, 1, off) \o s \o SubSeq(b, off + Len(s) + 1, Len(b))

\* usize arithmetic: the modulus stands for 2^64 (TLC integers are 32 bit wide);
\* like 2^64 it exceeds the room of every mbuf
UsizeModulus == 2 ^ 30

wrapping_sub(a, b) == IF a >= b THEN a - b ELSE UsizeModulus - (b - a)

\* room of an mbuf behind the UDP header; Mbuf::extend fails beyond it
MbufRoom == 2 ^ 11

\* Mbuf::extend(len(), n): append n bytes; fails, changing nothing, when
\* n = 0 or the tail room is too short
mbuf_extend(b, n) ==
    IF n = 0 \/ Len(b) + n > MbufRoom THEN b ELSE b \o Zeros(n)

Ipv4Addr(a, b, c, d) == ((a * 256 + b) * 256 + c) * 256 + d

MacAddr(a, b, c, d, e, f) == << a, b, c, d, e, f >>

UdpHeaderLen == 8

Ipv4HeaderLen == 20

(***************************************************************************)
(* AES-256-GCM under the fixed key and nonce of dtls.rs.  With key and     *)
(* nonce fixed the keystream is a fixed function of the byte position and  *)
(* the tag a fixed function of the ciphertext; both are stand-ins with     *)
(* these two properties.                                                   *)
(***************************************************************************)
TagLen == 16

Keystream(i) == ((i * 7) % 255) + 1

\* position-weighted sum of the bytes lo..hi of c
RECURSIVE WeightedSum(_, _, _)
WeightedSum(c, lo, hi) ==
    IF lo > hi THEN 0
    ELSE IF lo = hi THEN (c[lo] + 1) * ((lo % 251) + 1)
    ELSE LET mid == (lo + hi) \div 2
         IN  (WeightedSum(c, lo, mid) + WeightedSum(c, mid + 1, hi)) % 65521

Digest(c) == (WeightedSum(c, 1, Len(c)) + Len(c) + 7) % 65521

Tag(c) == LET d == Digest(c) IN [j \in 1..TagLen |-> (d + j * 17) % 256]

\* Aead::encrypt: ciphertext of the same length, then the 16 byte tag
aead_encrypt(p) ==
    LET c == [i \in 1..Len(p) |-> (p[i] + Keystream(i)) % 256] \o << >>
    IN  c \o Tag(c)

\* Aead::decrypt: Err unless the last 16 bytes are the tag of the rest
aead_decrypt(b) ==
    IF Len(b) < TagLen THEN Err
    ELSE LET c == SubSeq(b, 1, Len(b) - TagLen)
             t == SubSeq(b, Len(b) - TagLen + 1, Len(b))
         IN  IF t # Tag(c) THEN Err
             ELSE Ok([i \in 1..Len(c) |-> (c[i] + 256 - Keystream(i)) % 256] \o << >>)

(***************************************************************************)
(* dtls.rs                                                                 *)
(***************************************************************************)
\* the tail of decrypt_gdp / encrypt_gdp: the mbuf is resized by length_delta
\* and the new bytes are written over the payload.  `out` is the decrypted or
\* encrypted payload.  The results of extend, truncate and write_data_slice
\* are not looked at by the code.
rewrite_mbuf(udp_packet, out, site) ==
    LET total_length == UdpHeaderLen + Len(udp_packet.payload)
        old_len      == total_length - UdpHeaderLen
    IN  IF Len(out) < old_len /\ overflow_checks
        THEN [panic |-> site, pkt |-> udp_packet]
        ELSE LET length_delta == wrapping_sub(Len(out), old_len)
                 \* length_delta is a usize: `length_delta < 0` is never true
                 resized == IF length_delta > 0
                            THEN mbuf_extend(udp_packet.payload, length_delta)
                            ELSE udp_packet.payload
             IN  [panic |-> "",
                  pkt   |-> [udp_packet EXCEPT !.payload = write_data_slice(resized, 0, out)]]

\* cipher.decrypt(..).expect("failed!"), then the rewrite of the mbuf
expect_decrypted(udp_packet, decrypted) ==
    IF ~is_ok(decrypted)
    THEN [panic |-> "decrypt_gdp", pkt |-> udp_packet]
    ELSE rewrite_mbuf(udp_packet, unwrap(decrypted), "decrypt_gdp")

decrypt_gdp(udp_packet) == expect_decrypted(udp_packet, aead_decrypt(udp_packet.payload))

encrypt_gdp(udp_packet) ==
    rewrite_mbuf(udp_packet, aead_encrypt(udp_packet.payload), "encrypt_gdp")

(***************************************************************************)
(* gdp.rs                                                                  *)
(***************************************************************************)
MAGIC_NUMBERS == 38 * 256 + 42      \* u16::from_be_bytes([0x26, 0x2a])

Noop == 0
Put == 1
Get == 2
RibGet == 3
RibReply == 4
Forward == 5
Nack == 6

try_from_unknown_forward(v) ==
    IF v \in {Noop, Get, Put, RibGet, RibReply, Forward, Nack} THEN Ok(v) ELSE Ok(Forward)

\* TryFrom<u8> for GdpAction
try_from(v) ==
    IF v \in {Noop, Get, Put, RibGet, RibReply, Forward, Nack} THEN Ok(v) ELSE Err

unwrap_or(r, default) == IF is_ok(r) THEN unwrap(r) ELSE default

NameLen == 32

GdpName(n) == [i \in 1..NameLen |-> n]

\* GdpHeader, repr(C), fields of alignment 1: the number of bytes before each field
OffField == 0
OffTtl == OffField + 2
OffAction == OffTtl + 1
OffSrc == OffAction + 1
OffDst == OffSrc + NameLen
OffLastHop == OffDst + NameLen
OffDataLen == OffLastHop + NameLen
\* a header size that leaves out the data_len field
header_len_without_data_len == OffDataLen

\* GdpHeader::size_of()
header_len == OffDataLen + 2

DefaultTtl == 64

\* GdpHeader::default()
DefaultHeader ==
    BE16(0) \o << DefaultTtl, Noop >> \o GdpName(0) \o GdpName(0) \o GdpName(0) \o BE16(0)

field(gdp) == ReadBE(gdp.payload, OffField, 2)
ttl(gdp) == gdp.payload[OffTtl + 1]
action(gdp) == try_from(gdp.payload[OffAction + 1])
src(gdp) == SubSeq(gdp.payload, OffSrc + 1, OffSrc + NameLen)
dst(gdp) == SubSeq(gdp.payload, OffDst + 1, OffDst + NameLen)
last_hop(gdp) == SubSeq(gdp.payload, OffLastHop + 1, OffLastHop + NameLen)
data_len(gdp) == ReadBE(gdp.payload, OffDataLen, 2)

set_action(gdp, a) == [gdp EXCEPT !.payload[OffAction + 1] = a]

set_data_len(gdp, n) ==
    [gdp EXCEPT !.payload = write_data_slice(@, OffDataLen, BE16(n % 65536))]

\* Packet::payload_len of the Gdp view
payload_len(gdp) == Len(gdp.payload) - header_len

\* Gdp::try_parse: read_data needs a whole header in the mbuf, then the magic
try_parse(envelope) ==
    IF Len(envelope.payload) < header_len THEN Err
    ELSE IF field(envelope) # MAGIC_NUMBERS THEN Err
    ELSE Ok(envelope)

\* Gdp::try_push: room for a header at the payload offset, default header written
try_push(envelope) == [envelope EXCEPT !.payload = DefaultHeader \o @]
\* reconcile that leaves the header as it is
reconcile_nothing(gdp) == gdp

\* Gdp::reconcile
reconcile(gdp) == [gdp EXCEPT !.payload = write_data_slice(@, OffField, BE16(MAGIC_NUMBERS))]

\* Packet::reconcile_all: reconcile of the Gdp view, then of its envelopes
\* (Udp: length; Ipv4: total length)
reconcile_all(gdp) ==
    LET g == reconcile(gdp)
        u == [g EXCEPT !.udp_length = UdpHeaderLen + Len(g.payload)]
    IN  [u EXCEPT !.ip_total_length = Ipv4HeaderLen + u.udp_length]

\* Packet::remove_payload (Gdp does not override it): Mbuf::shrink of the
\* payload, which fails when there is nothing to remove
remove_payload(gdp) ==
    IF payload_len(gdp) = 0 THEN Err
    ELSE Ok([gdp EXCEPT !.payload = SubSeq(@, 1, header_len)])
set_ttl(gdp, t) == [gdp EXCEPT !.payload[OffTtl + 1] = t]

set_src(gdp, n) == [gdp EXCEPT !.payload = write_data_slice(@, OffSrc, n)]

set_dst(gdp, n) == [gdp EXCEPT !.payload = write_data_slice(@, OffDst, n)]

\* Mbuf::truncate(to_len): fails unless to_len is below the length
mbuf_truncate(b, to_len) == IF to_len < Len(b) THEN Ok(SubSeq(b, 1, to_len)) ELSE Err

\* Mbuf::extend(offset, n) with its result: n > 0, offset within the data, room for n bytes
mbuf_try_extend(b, offset, n) ==
    IF n = 0 \/ offset > Len(b) \/ Len(b) + n > MbufRoom THEN Err
    ELSE Ok(SubSeq(b, 1, offset) \o Zeros(n) \o SubSeq(b, offset + 1, Len(b)))

\* Mbuf::read_data_slice(offset, count): the offset within the data, the slice
\* within the data (the sum of two usize wraps in a release build)
read_data_slice(b, offset, count) ==
    IF offset >= Len(b) \/ (offset + count) % UsizeModulus > Len(b) THEN Err
    ELSE Ok(SubSeq(b, offset + 1, offset + count))

\* a u64 length as bincode writes it: 8 bytes, little endian
LE64(n) == << n % 256, (n \div 256) % 256, 0, 0, 0, 0, 0, 0 >>

\* a Certificate is an opaque value that bincode writes as one byte
serialize_certificate(c) == << c >>

RECURSIVE serialize_certificates(_)
serialize_certificates(cs) ==
    IF cs = << >> THEN << >>
    ELSE serialize_certificate(Head(cs)) \o serialize_certificates(Tail(cs))

\* bincode::serialize of a CertificateBlock: the length of the Vec, then its elements
serialize(certificates) == LE64(Len(certificates)) \o serialize_certificates(certificates)

\* bincode::deserialize of a CertificateBlock: the length, then that many
\* elements; too few bytes are an error, bytes left over are not
deserialize(b) ==
    IF Len(b) < 8 THEN Err
    ELSE IF \E i \in 3..8 : b[i] # 0 THEN Err
    ELSE IF Len(b) - 8 < b[1] + 256 * b[2] THEN Err
    ELSE Ok(SubSeq(b, 9, 8 + b[1] + 256 * b[2]) \o << >>)

\* Gdp::get_certs; payload_len() - data_len() is a usize subtraction
get_certs(gdp) ==
    IF payload_len(gdp) < data_len(gdp) /\ overflow_checks
    THEN [panic |-> "get_certs", ret |-> Err]
    ELSE LET rest  == wrapping_sub(payload_len(gdp), data_len(gdp))
             slice == read_data_slice(gdp.payload, header_len + data_len(gdp), rest)
         IN  [panic |-> "",
              ret   |-> IF rest = 0 THEN Ok(<< >>)
                        ELSE IF ~is_ok(slice) THEN Err
                        ELSE deserialize(unwrap(slice))]

\* the tail of set_certs: extend at cert_offset, write the serialized block;
\* an error returns with what has been done to the mbuf so far
extend_and_write(gdp, cert_offset, serialized) ==
    LET extended == mbuf_try_extend(gdp.payload, cert_offset, Len(serialized))
    IN  IF ~is_ok(extended) THEN [ok |-> FALSE, pkt |-> gdp]
        ELSE [ok  |-> TRUE,
              pkt |-> [gdp EXCEPT !.payload = write_data_slice(unwrap(extended), cert_offset, serialized)]]

\* set_certs that does not truncate: the block goes behind what is there
set_certs_append(gdp, certificates) ==
    extend_and_write(gdp, Len(gdp.payload), serialize(certificates))

\* Gdp::set_certs
set_certs(gdp, certificates) ==
    LET cert_offset == header_len + data_len(gdp)
        truncated   == mbuf_truncate(gdp.payload, cert_offset)
    IN  IF Len(gdp.payload) # cert_offset /\ ~is_ok(truncated)
        THEN [ok |-> FALSE, pkt |-> gdp]
        ELSE extend_and_write(
                 IF Len(gdp.payload) # cert_offset
                 THEN [gdp EXCEPT !.payload = unwrap(truncated)] ELSE gdp,
                 cert_offset, serialize(certificates))

\* key and value of a RIB query or reply: the name and the u32 at the start
\* of the data region (missing bytes read as 0)
PadTo(b, n) == IF Len(b) < n THEN b \o Zeros(n - Len(b)) ELSE b

KeyValueLen == NameLen + 4

key(gdp) == SubSeq(PadTo(gdp.payload, header_len + KeyValueLen), header_len + 1, header_len + NameLen)

value(gdp) == ReadBE(PadTo(gdp.payload, header_len + KeyValueLen), header_len + NameLen, 4)

set_key(gdp, k) ==
    set_data_len([gdp EXCEPT !.payload =
                     write_data_slice(PadTo(@, header_len + KeyValueLen), header_len, k)],
                 KeyValueLen)

set_value(gdp, v) ==
    set_data_len([gdp EXCEPT !.payload =
                     write_data_slice(PadTo(@, header_len + KeyValueLen), header_len + NameLen, BE32(v))],
                 KeyValueLen)

(***************************************************************************)
(* rib.rs                                                                  *)
(***************************************************************************)
RIB_IP == Ipv4Addr(10, 100, 1, 10)

RIB_PORT == 27182

RIB_MAC == MacAddr(2, 0, 0, 255, 255, 0)

\* Mbuf::new() with Ethernet, Ipv4 and Udp pushed: every field zero
NewUdp ==
    [eth_src |-> MacAddr(0, 0, 0, 0, 0, 0), eth_dst |-> MacAddr(0, 0, 0, 0, 0, 0),
     parses |-> TRUE, ip_src |-> 0, ip_dst |-> 0, ip_total_length |-> 0,
     udp_src_port |-> 0, udp_dst_port |-> 0, udp_length |-> 0, payload |-> << >>]

create_rib_request(k, src_mac, src_ip) ==
    LET udp == [NewUdp EXCEPT !.eth_src = src_mac, !.eth_dst = RIB_MAC,
                              !.ip_src = src_ip, !.ip_dst = RIB_IP,
                              !.udp_src_port = RIB_PORT, !.udp_dst_port = RIB_PORT]
    IN  Ok(reconcile_all(set_key(set_action(try_push(udp), RibGet), k)))

\* HashMap::insert under with_mut_contents
handle_rib_reply_keep(packet, store) ==
    IF key(packet) \in DOMAIN store THEN store
    ELSE [n \in DOMAIN store \cup {key(packet)} |->
             IF n = key(packet) THEN value(packet) ELSE store[n]]

handle_rib_reply(packet, store) ==
    [n \in DOMAIN store \cup {key(packet)} |->
        IF n = key(packet) THEN value(packet) ELSE store[n]]

\* the store is not consulted: the value written is the placeholder 10
handle_rib_query(packet, store) ==
    LET udp == [NewUdp EXCEPT !.eth_src = packet.eth_dst, !.eth_dst = packet.eth_src,
                              !.ip_src = packet.ip_dst, !.ip_dst = packet.ip_src,
                              !.udp_src_port = packet.udp_dst_port,
                              !.udp_dst_port = packet.udp_src_port]
    IN  Ok(reconcile_all(set_value(set_key(set_action(try_push(udp), RibReply), key(packet)), 10)))

(***************************************************************************)
(* main.rs                                                                 *)
(***************************************************************************)
\* find_destination that finds nothing
find_destination_none(gdp, store) == None

find_destination(gdp, store) ==
    IF dst(gdp) \in DOMAIN store THEN Some(store[dst(gdp)]) ELSE None

\* bounce_udp that overwrites the source before it reads it for the destination
bounce_udp_no_temp(udp) ==
    [udp EXCEPT !.udp_src_port = udp.udp_dst_port, !.udp_dst_port = udp.udp_dst_port,
                !.eth_src = udp.eth_dst, !.eth_dst = udp.eth_dst]

bounce_udp(udp) ==
    [udp EXCEPT !.udp_src_port = udp.udp_dst_port, !.udp_dst_port = udp.udp_src_port,
                !.eth_src = udp.eth_dst, !.eth_dst = udp.eth_src]

forward_gdp_dst_first(gdp, d) == Ok([gdp EXCEPT !.ip_dst = d, !.ip_src = d])

\* forward_gdp that also marks the packet as bounce_gdp does
forward_gdp_set_nack(gdp, d) ==
    Ok([set_action(gdp, Nack) EXCEPT !.ip_src = gdp.ip_dst, !.ip_dst = d])

forward_gdp(gdp, d) == Ok([gdp EXCEPT !.ip_src = gdp.ip_dst, !.ip_dst = d])

bounce_gdp(gdp) ==
    LET removed == remove_payload(gdp)
    IN  IF ~is_ok(removed) THEN Err
        ELSE Ok(reconcile_all(bounce_udp(set_action(unwrap(removed), Nack))))

\* batch operators: map drops a packet whose transform fails
map(r) == IF is_ok(r) THEN << unwrap(r) >> ELSE << >>

\* the subpipeline of the group `k`; out: the packets that leave it
switch_pipeline(k, packet, store) ==
    IF k = Forward
    THEN IF find_destination(packet, store) # None
         THEN LET found == find_destination(packet, store)
              IN  [out   |-> map(IF found = None THEN Err ELSE forward_gdp(packet, unwrap(found))),
                   store |-> store]
         ELSE [out |-> map(bounce_gdp(packet)), store |-> store]
    ELSE IF k = RibReply
    THEN [out |-> << >>, store |-> handle_rib_reply(packet, store)]
    ELSE [out |-> << >>, store |-> store]
\* The Forward arm of switch_pipeline in the steps a worker takes: the
\* group_by selector reads the store, the arm of the group reads it again.

\* find_destination(packet, store).is_some()
forward_selector(packet, store) == find_destination(packet, store) # None

\* true => map(find_destination(..).ok_or(..)?, forward_gdp)
hit_arm(packet, store) ==
    LET found == find_destination(packet, store)
    IN  map(IF found = None THEN Err ELSE forward_gdp(packet, unwrap(found)))

\* false => map(bounce_gdp)
miss_arm(packet) == map(bounce_gdp(packet))

rib_pipeline(k, packet, store) ==
    IF k = RibGet
    THEN [out |-> map(handle_rib_query(packet, store)), store |-> store]
    ELSE [out |-> << >>, store |-> store]

gdp_pipeline(role, k, packet, store) ==
    IF role = "switch" THEN switch_pipeline(k, packet, store)
    ELSE rib_pipeline(k, packet, store)

\* A batch on its way through install_gdp_pipeline: the packets still in it,
\* the function that panicked ("" if none) and the store.

\* Poll, then map(parse Ethernet, Ipv4, Udp)
poll_parse(frame, store) ==
    [panic |-> "", out |-> IF frame.parses THEN << frame >> ELSE << >>, store |-> store]

decrypted_batch(batch, d) ==
    IF d.panic # "" THEN [batch EXCEPT !.panic = d.panic, !.out = << >>]
    ELSE [batch EXCEPT !.out = << d.pkt >>]

\* map(decrypt_gdp)
map_decrypt(batch) ==
    IF batch.out = << >> THEN batch ELSE decrypted_batch(batch, decrypt_gdp(batch.out[1]))

\* map(parse Gdp)
map_parse_gdp(batch) ==
    IF batch.out = << >> THEN batch ELSE [batch EXCEPT !.out = map(try_parse(batch.out[1]))]

\* group_by(action().unwrap_or(Noop), gdp_pipeline)
group_by_action(role, batch) ==
    IF batch.out = << >> THEN batch
    ELSE [panic |-> batch.panic] @@
         gdp_pipeline(role, unwrap_or(action(batch.out[1]), Noop), batch.out[1], batch.store)

FirstPanic(rs) ==
    IF \E i \in 1..Len(rs) : rs[i].panic # ""
    THEN rs[CHOOSE i \in 1..Len(rs) : rs[i].panic # "" /\ \A j \in 1..(i - 1) : rs[j].panic = ""].panic
    ELSE ""

encrypted_batch(batch, es) ==
    IF batch.panic # "" THEN batch
    ELSE IF FirstPanic(es) # "" THEN [batch EXCEPT !.panic = FirstPanic(es), !.out = << >>]
    ELSE [batch EXCEPT !.out = [i \in 1..Len(es) |-> es[i].pkt]]

\* map(encrypt_gdp(deparse)), then send: `out` is what is transmitted
map_encrypt(batch) ==
    encrypted_batch(batch, [i \in 1..Len(batch.out) |-> encrypt_gdp(batch.out[i])] \o << >>)

\* one packet through the pipeline of a port queue
install_gdp_pipeline(role, frame, store) ==
    map_encrypt(group_by_action(role, map_parse_gdp(map_decrypt(poll_parse(frame, store)))))

\* the stages of install_gdp_pipeline before the dispatch, and after it
ingress(frame) == map_parse_gdp(map_decrypt(poll_parse(frame, << >>)))

egress(out) == map_encrypt([panic |-> "", out |-> out, store |-> << >>])

(***************************************************************************)
(* The packets a port can receive                                          *)
(***************************************************************************)
Names == { GdpName(1), GdpName(2) }

HostIp == Ipv4Addr(10, 0, 0, 5)

NodeIp == Ipv4Addr(10, 0, 0, 1)

\* addresses a RibReply can carry
ReplyValues == { Ipv4Addr(10, 0, 0, 2), Ipv4Addr(10, 0, 0, 3), RIB_IP }

\* a UDP datagram from a host to this node with the given mbuf payload
Datagram(payload) ==
    [eth_src |-> MacAddr(2, 0, 0, 0, 0, 5), eth_dst |-> MacAddr(2, 0, 0, 0, 0, 1),
     parses |-> TRUE, ip_src |-> HostIp, ip_dst |-> NodeIp,
     ip_total_length |-> Ipv4HeaderLen + UdpHeaderLen + Len(payload),
     udp_src_port |-> 31415, udp_dst_port |-> RIB_PORT,
     udp_length |-> UdpHeaderLen + Len(payload), payload |-> payload]

\* the wire bytes of a GDP packet before encryption
GdpBytes(t, a, s, d, lh, n, body) ==
    BE16(MAGIC_NUMBERS) \o << t, a >> \o s \o d \o lh \o BE16(n) \o body

DataOf(n) == [i \in 1..n |-> 170 + i]

Ttls == { 0, 1, DefaultTtl }

ForwardPlains ==
    { GdpBytes(t, Forward, GdpName(1), d, GdpName(2), n, DataOf(n)) :
        t \in Ttls, d \in Names, n \in 0..MaxData }

RibReplyPlains ==
    { GdpBytes(t, RibReply, GdpName(1), GdpName(2), GdpName(1), KeyValueLen, k \o BE32(v)) :
        t \in { DefaultTtl }, k \in Names, v \in ReplyValues }

RibGetPlains ==
    { GdpBytes(DefaultTtl, RibGet, GdpName(1), GdpName(2), GdpName(1), KeyValueLen, k \o BE32(0)) :
        k \in Names }

\* the actions no pipeline handles everywhere, and two bytes that are no action
OtherPlains ==
    { GdpBytes(DefaultTtl, a, GdpName(1), GdpName(1), GdpName(1), 0, << >>) :
        a \in { Noop, Put, Get, Nack, 7, 255 } }

\* a payload shorter than a GDP header, and a wrong magic
BadPlains ==
    { SubSeq(GdpBytes(DefaultTtl, Forward, GdpName(1), GdpName(1), GdpName(1), 0, << >>), 1, NameLen),
      [ GdpBytes(DefaultTtl, Forward, GdpName(1), GdpName(1), GdpName(1), 0, << >>) EXCEPT ![1] = 0 ] }

Plains == ForwardPlains \cup RibReplyPlains \cup RibGetPlains \cup OtherPlains \cup BadPlains

Tamper(b) == [b EXCEPT ![Len(b)] = (@ + 1) % 256]

Frames ==
    { Datagram(aead_encrypt(p)) : p \in Plains } \cup
    { Datagram(Tamper(aead_encrypt(p))) : p \in RibGetPlains } \cup
    { Datagram(<< >>), [ Datagram(<< >>) EXCEPT !.parses = FALSE ] }

(***************************************************************************)
(* The workers of main.rs: eth1 runs the switch pipeline over store1, eth2 *)
(* the RIB pipeline over store2.  A worker runs one packet through the     *)
(* whole pipeline before it polls the next.                                *)
(***************************************************************************)
Ports == { "eth1", "eth2" }

EmptyTable == [n \in {} |-> 0]

\* tables the static route loader can leave in a store before the workers start
StaticRoutes ==
    { EmptyTable, [n \in { GdpName(1) } |-> Ipv4Addr(10, 0, 0, 2)] }

\* the variables of the other specifications, at rest
UnitIdle == op_pc = "idle" /\ op_in = NewUdp /\ op_pkt = NewUdp /\ op_res = << >>

ExpireIdle == entry_ttl = EmptyTable /\ inserts = 0 /\ evicted = {}

AeadIdle == aead_pc = "idle" /\ aead_orig = NewUdp /\ aead_buf = NewUdp

RaceIdle == worker = << >> /\ nacked = {} /\ learned = EmptyTable

PipelineIdle ==
    /\ rib_table = EmptyTable
    /\ panicked = [p \in Ports |-> ""]
    /\ rx_port = "none"
    /\ rx = NewUdp
    /\ tx = << >>
    /\ prev_table = EmptyTable

Init ==
    /\ overflow_checks \in BOOLEAN
    /\ forwarding_table \in StaticRoutes
    /\ rib_table \in StaticRoutes
    /\ panicked = [p \in Ports |-> ""]
    /\ rx_port = "none"
    /\ rx = NewUdp
    /\ tx = << >>
    /\ prev_table = EmptyTable
    /\ aead_pc = "idle"
    /\ aead_orig = NewUdp
    /\ aead_buf = NewUdp
    /\ UnitIdle
    /\ ExpireIdle
    /\ RaceIdle

SwitchReceive ==
    \E f \in Frames :
        /\ panicked["eth1"] = ""
        /\ \E r \in { install_gdp_pipeline("switch", f, forwarding_table) } :
               /\ forwarding_table' = r.store
               /\ panicked' = [panicked EXCEPT !["eth1"] = r.panic]
               /\ tx' = r.out
        /\ rx_port' = "eth1"
        /\ rx' = f
        /\ prev_table' = forwarding_table
        /\ UNCHANGED << overflow_checks, rib_table, aead_pc, aead_orig, aead_buf >>
        /\ UNCHANGED << unit_vars, expire_vars, race_vars >>

RibReceive ==
    \E f \in Frames :
        /\ panicked["eth2"] = ""
        /\ \E r \in { install_gdp_pipeline("rib", f, rib_table) } :
               /\ rib_table' = r.store
               /\ panicked' = [panicked EXCEPT !["eth2"] = r.panic]
               /\ tx' = r.out
        /\ rx_port' = "eth2"
        /\ rx' = f
        /\ prev_table' = rib_table
        /\ UNCHANGED << overflow_checks, forwarding_table, aead_pc, aead_orig, aead_buf >>
        /\ UNCHANGED << unit_vars, expire_vars, race_vars >>

Next == SwitchReceive \/ RibReceive

Spec == Init /\ [][Next]_vars

(***************************************************************************)
(* encrypt_gdp then decrypt_gdp on one packet, for every payload up to     *)
(* MaxPlain bytes                                                          *)
(***************************************************************************)
PlainBytes == { 0, 1, 255 }

RECURSIVE SeqsUpTo(_)
SeqsUpTo(n) ==
    IF n = 0 THEN { << >> }
    ELSE SeqsUpTo(n - 1) \cup { Append(q, b) : q \in { r \in SeqsUpTo(n - 1) : Len(r) = n - 1 }, b \in PlainBytes }

AeadInit ==
    /\ overflow_checks \in BOOLEAN
    /\ forwarding_table = EmptyTable
    /\ rib_table = EmptyTable
    /\ panicked = [p \in Ports |-> ""]
    /\ rx_port = "none"
    /\ rx = NewUdp
    /\ tx = << >>
    /\ prev_table = EmptyTable
    /\ aead_pc = "plain"
    /\ aead_orig \in { Datagram(p) : p \in SeqsUpTo(MaxPlain) }
    /\ aead_buf = aead_orig
    /\ UnitIdle
    /\ ExpireIdle
    /\ RaceIdle

AeadEncrypt ==
    /\ aead_pc = "plain"
    /\ LET r == encrypt_gdp(aead_buf)
       IN  /\ aead_buf' = r.pkt
           /\ aead_pc' = IF r.panic # "" THEN "panic" ELSE "encrypted"
    /\ UNCHANGED << overflow_checks, forwarding_table, rib_table, panicked, rx_port, rx,
                    tx, prev_table, aead_orig >>
    /\ UNCHANGED << unit_vars, expire_vars, race_vars >>

AeadDecrypt ==
    /\ aead_pc = "encrypted"
    /\ LET r == decrypt_gdp(aead_buf)
       IN  /\ aead_buf' = r.pkt
           /\ aead_pc' = IF r.panic # "" THEN "panic" ELSE "decrypted"
    /\ UNCHANGED << overflow_checks, forwarding_table, rib_table, panicked, rx_port, rx,
                    tx, prev_table, aead_orig >>
    /\ UNCHANGED << unit_vars, expire_vars, race_vars >>

AeadNext == AeadEncrypt \/ AeadDecrypt

SpecAead == AeadInit /\ [][AeadNext]_vars

(***************************************************************************)
(* The packet processed last, as the pipeline saw it                       *)
(***************************************************************************)
\* the received packet with its payload decrypted (when it authenticates)
InPkt == [rx EXCEPT !.payload = unwrap(aead_decrypt(rx.payload))]

\* the received packet is a UDP datagram that authenticates and holds a GDP header
Accepted ==
    /\ rx_port # "none"
    /\ rx.parses
    /\ is_ok(aead_decrypt(rx.payload))
    /\ is_ok(try_parse(InPkt))

Alive == panicked[rx_port] = ""

ActionByte == InPkt.payload[OffAction + 1]

\* the store of the worker that processed the packet
TableNow == IF rx_port = "eth1" THEN forwarding_table ELSE rib_table

\* the i-th transmitted packet authenticates; its payload decrypted
TxSealed(i) == is_ok(aead_decrypt(tx[i].payload))

TxPkt(i) == [tx[i] EXCEPT !.payload = unwrap(aead_decrypt(tx[i].payload))]

SwitchForward == rx_port = "eth1" /\ Accepted /\ ActionByte = Forward

Hit == dst(InPkt) \in DOMAIN prev_table

C2_TtlDecremented ==
    (SwitchForward /\ Hit /\ Alive /\ ttl(InPkt) > 0) =>
        /\ Len(tx) = 1
        /\ TxSealed(1)
        /\ ttl(TxPkt(1)) = ttl(InPkt) - 1

\* C3: a GDP packet with ttl = 0 is dropped: nothing is transmitted for it
\* and the store is unchanged, whatever its action.
C3_TtlZeroDropped ==
    (Accepted /\ ttl(InPkt) = 0) => (tx = << >> /\ TableNow = prev_table)

\* C4: a Forward packet with an unknown dst name comes back as a Nack:
\* action Nack, data_len 0, buffer cut at the end of the GDP header, UDP
\* ports swapped, Ethernet addresses swapped.
C4_MissBouncesNack ==
    (SwitchForward /\ ~Hit /\ Alive) =>
        /\ Len(tx) = 1
        /\ TxSealed(1)
        /\ action(TxPkt(1)) = Ok(Nack)
        /\ data_len(TxPkt(1)) = 0
        /\ Len(TxPkt(1).payload) = header_len
        /\ tx[1].udp_src_port = rx.udp_dst_port
        /\ tx[1].udp_dst_port = rx.udp_src_port
        /\ tx[1].eth_src = rx.eth_dst
        /\ tx[1].eth_dst = rx.eth_src

\* C5: a Forward packet with an unknown dst name X also makes the switch
\* emit a RibGet carrying X to the RIB endpoint.
C5_MissEmitsRibGet ==
    (SwitchForward /\ ~Hit /\ Alive) =>
        \E i \in 1..Len(tx) :
            /\ TxSealed(i)
            /\ action(TxPkt(i)) = Ok(RibGet)
            /\ key(TxPkt(i)) = dst(InPkt)
            /\ tx[i].ip_dst = RIB_IP
            /\ tx[i].udp_src_port = RIB_PORT
            /\ tx[i].udp_dst_port = RIB_PORT
            /\ tx[i].eth_dst = RIB_MAC

\* C6: a RibReply with key K and value V leaves forwarding_table[K] = V,
\* every other binding as it was, and nothing is transmitted for it.
C6_RibReplyInstalls ==
    (rx_port = "eth1" /\ Accepted /\ ActionByte = RibReply /\ Alive) =>
        /\ DOMAIN forwarding_table = DOMAIN prev_table \cup { key(InPkt) }
        /\ forwarding_table[key(InPkt)] = value(InPkt)
        /\ \A n \in DOMAIN prev_table \ { key(InPkt) } : forwarding_table[n] = prev_table[n]
        /\ tx = << >>

C6_Witness ==
    /\ rx_port = "eth1" /\ Accepted /\ ActionByte = RibReply /\ Alive
    /\ key(InPkt) \in DOMAIN prev_table
    /\ prev_table[key(InPkt)] # value(InPkt)
    /\ forwarding_table[key(InPkt)] = value(InPkt)
    /\ DOMAIN prev_table # { key(InPkt) }

\* C7: a RibGet with key K, when the RIB store binds K to V, is answered
\* by a RibReply with key K and value V, with IPv4 addresses, UDP ports and
\* Ethernet addresses swapped.
C7_RibQueryAnswered ==
    (rx_port = "eth2" /\ Accepted /\ ActionByte = RibGet /\ Alive
        /\ key(InPkt) \in DOMAIN prev_table) =>
        /\ Len(tx) = 1
        /\ TxSealed(1)
        /\ action(TxPkt(1)) = Ok(RibReply)
        /\ key(TxPkt(1)) = key(InPkt)
        /\ value(TxPkt(1)) = prev_table[key(InPkt)]
        /\ tx[1].ip_src = rx.ip_dst /\ tx[1].ip_dst = rx.ip_src
        /\ tx[1].udp_src_port = rx.udp_dst_port /\ tx[1].udp_dst_port = rx.udp_src_port
        /\ tx[1].eth_src = rx.eth_dst /\ tx[1].eth_dst = rx.eth_src

\* C8: a packet whose action the pipeline does not handle (switch: neither
\* Forward nor RibReply; RIB: not RibGet; an action byte outside 0..6
\* included) is dropped: nothing is transmitted, the store is unchanged, and
\* the dispatch does not kill the worker.
Unhandled ==
    \/ rx_port = "eth1" /\ ActionByte \notin { Forward, RibReply }
    \/ rx_port = "eth2" /\ ActionByte # RibGet

C8_UnhandledDropped ==
    (Accepted /\ Unhandled) =>
        /\ tx = << >>
        /\ TableNow = prev_table
        /\ panicked[rx_port] \in { "", "decrypt_gdp" }
        /\ ~overflow_checks => Alive

C8_Witness ==
    /\ Accepted /\ rx_port = "eth1" /\ Alive
    /\ ActionByte \notin 0..6
    /\ tx = << >>

\* C9: no per-packet failure panics the worker; a packet that fails AEAD
\* authentication is dropped with nothing transmitted.
C9_NoPanic ==
    rx_port # "none" =>
        /\ Alive
        /\ (rx.parses /\ ~is_ok(aead_decrypt(rx.payload))) => tx = << >>

\* C10: encrypt_gdp grows the buffer by 16 bytes, decrypt_gdp shrinks it by
\* 16 bytes, and the round trip restores the payload bytes and the length.
C10_RoundTrip ==
    /\ aead_pc # "panic"
    /\ aead_pc = "encrypted" => Len(aead_buf.payload) = Len(aead_orig.payload) + TagLen
    /\ aead_pc = "decrypted" => aead_buf.payload = aead_orig.payload

\* ---------------------------------------------------------------------------
\* C11, C12: what forward_gdp leaves alone
\* ---------------------------------------------------------------------------

\* the application data of a packet: data_len bytes after the header
DataRegion(gdp) == SubSeq(gdp.payload, header_len + 1, header_len + data_len(gdp))

NodeName == GdpName(3)

\* C12: a Forward packet with a known destination is forwarded with last_hop
\* set to the name of the forwarding node.
C12_LastHopRewritten ==
    (SwitchForward /\ Hit /\ Alive) =>
        /\ Len(tx) = 1
        /\ TxSealed(1)
        /\ last_hop(TxPkt(1)) = NodeName

\* ---------------------------------------------------------------------------
\* C13: bounce_udp alone, applied once and twice to a UDP envelope
\* ---------------------------------------------------------------------------

BouncePorts == { 31415, RIB_PORT, 53 }

BounceMacs == { MacAddr(2, 0, 0, 0, 0, 5), MacAddr(2, 0, 0, 0, 0, 1) }

BounceIps == { HostIp, NodeIp }

BounceInputs ==
    { [Datagram(<< >>) EXCEPT !.udp_src_port = sp, !.udp_dst_port = dp,
                              !.eth_src = es, !.eth_dst = ed, !.ip_src = is] :
        sp \in BouncePorts, dp \in BouncePorts, es \in BounceMacs, ed \in BounceMacs,
        is \in BounceIps }

BounceInit ==
    /\ overflow_checks = FALSE
    /\ forwarding_table = EmptyTable
    /\ PipelineIdle
    /\ AeadIdle
    /\ ExpireIdle
    /\ RaceIdle
    /\ op_pc = "bounce0"
    /\ op_in \in BounceInputs
    /\ op_pkt = op_in
    /\ op_res = << >>

BounceUdp ==
    /\ op_pc \in { "bounce0", "bounce1" }
    /\ op_pkt' = bounce_udp(op_pkt)
    /\ op_pc' = IF op_pc = "bounce0" THEN "bounce1" ELSE "bounce2"
    /\ UNCHANGED << overflow_checks, forwarding_table, pipeline_vars, aead_vars,
                    expire_vars, race_vars, op_in, op_res >>

BounceNext == BounceUdp

SpecBounce == BounceInit /\ [][BounceNext]_vars

\* the four fields bounce_udp writes
BounceAddresses(udp) == << udp.udp_src_port, udp.udp_dst_port, udp.eth_src, udp.eth_dst >>

C14_HeaderIs100 ==
    SwitchForward =>
        /\ header_len = 100
        /\ SubSeq(InPkt.payload, 100 + 1, 100 + data_len(InPkt)) = DataOf(data_len(InPkt))

\* C14, amended: the fields of the GDP header (field 2, ttl 1, action 1, src 32,
\* dst 32, last_hop 32, data_len 2) sum to 102 bytes: header_len() is 102, an
\* accepted packet holds at least 102 bytes, and the data of a received Forward
\* packet is found 102 bytes after the start of the UDP payload.
C14_HeaderIs102 ==
    SwitchForward =>
        /\ header_len = 102
        /\ Len(InPkt.payload) >= 102
        /\ DataRegion(InPkt) = DataOf(data_len(InPkt))
        /\ SubSeq(InPkt.payload, 102 + 1, 102 + data_len(InPkt)) = DataOf(data_len(InPkt))

\* a Forward packet with data right behind its header has been received
C14_Witness ==
    /\ SwitchForward
    /\ data_len(InPkt) = MaxData
    /\ Len(InPkt.payload) = 102 + MaxData
    /\ MaxData > 0

\* ---------------------------------------------------------------------------
\* The Gdp packet view alone: try_parse, try_push, the setters, reconcile,
\* the builders of rib.rs, get_certs and set_certs, applied to one packet
\* ---------------------------------------------------------------------------

MaxCerts == 2

MaxSetters == 2

CertBytes == { 1, 2 }

CertBlocks == UNION { [1..n -> CertBytes] : n \in 0..MaxCerts }

\* what follows the data of a received packet: nothing, a serialized block, a
\* block with a byte behind it, or a byte that is no block
CertRegions ==
    { << >>, << 9 >>, serialize(<< 1 >>) \o << 5 >> } \cup { serialize(c) : c \in CertBlocks }

\* data_len fields larger than the data that follows the header
ForgedLens == { MaxData + 1, 65535 }

HonestPlains ==
    { GdpBytes(DefaultTtl, Forward, GdpName(1), GdpName(2), GdpName(1), n, DataOf(n) \o r) :
        n \in 0..MaxData, r \in CertRegions }

ForgedPlains ==
    { GdpBytes(DefaultTtl, Forward, GdpName(1), GdpName(2), GdpName(1), f, DataOf(n)) :
        n \in 0..MaxData, f \in ForgedLens }

GdpInputs == { Datagram(p) : p \in HonestPlains \cup ForgedPlains \cup BadPlains }

\* the record op_res holds: the certificates passed or returned, the outcome
\* of the last call, the packet before it, and the number of setter calls
OpRes(arg, ret, panic, ok, before, n) ==
    [arg |-> arg, ret |-> ret, panic |-> panic, ok |-> ok, before |-> before, n |-> n]

GdpInit ==
    /\ overflow_checks \in BOOLEAN
    /\ forwarding_table = EmptyTable
    /\ PipelineIdle
    /\ AeadIdle
    /\ ExpireIdle
    /\ RaceIdle
    /\ op_pc = "raw"
    /\ op_in \in GdpInputs
    /\ op_pkt = op_in
    /\ op_res = OpRes(<< >>, Err, "", TRUE, op_in, 0)

GdpFrame == UNCHANGED << overflow_checks, forwarding_table, pipeline_vars, aead_vars,
                         expire_vars, race_vars, op_in >>

GdpTryParse ==
    /\ op_pc = "raw"
    /\ op_pc' = IF is_ok(try_parse(op_pkt)) THEN "parsed" ELSE "rejected"
    /\ op_res' = [op_res EXCEPT !.ok = is_ok(try_parse(op_pkt))]
    /\ UNCHANGED op_pkt
    /\ GdpFrame

GdpTryPush ==
    /\ op_pc = "raw"
    /\ op_pkt' = try_push(op_pkt)
    /\ op_pc' = "pushed"
    /\ op_res' = [op_res EXCEPT !.before = op_pkt]
    /\ GdpFrame

\* one call of a setter of the view
GdpSetter ==
    /\ op_pc \in { "parsed", "pushed", "set" }
    /\ op_res.n < MaxSetters
    /\ \E p \in { set_action(op_pkt, Nack), set_ttl(op_pkt, 0), set_src(op_pkt, GdpName(2)),
                  set_dst(op_pkt, GdpName(1)), set_data_len(op_pkt, 0),
                  set_data_len(op_pkt, 65535 + 6) } :
          op_pkt' = p
    /\ op_pc' = "set"
    /\ op_res' = [op_res EXCEPT !.before = op_pkt, !.n = @ + 1]
    /\ GdpFrame

GdpReconcile ==
    /\ op_pc \in { "parsed", "pushed", "set" }
    /\ op_pkt' = reconcile(op_pkt)
    /\ op_pc' = "reconciled"
    /\ op_res' = [op_res EXCEPT !.before = op_pkt]
    /\ GdpFrame

\* create_rib_request for the destination of a parsed packet
GdpCreateRibRequest ==
    /\ op_pc = "parsed"
    /\ op_pkt' = unwrap(create_rib_request(dst(op_pkt), op_pkt.eth_dst, op_pkt.ip_dst))
    /\ op_pc' = "built"
    /\ op_res' = [op_res EXCEPT !.before = op_pkt]
    /\ GdpFrame

\* handle_rib_query with a parsed packet as the query
GdpHandleRibQuery ==
    /\ op_pc = "parsed"
    /\ op_pkt' = unwrap(handle_rib_query(op_pkt, EmptyTable))
    /\ op_pc' = "built"
    /\ op_res' = [op_res EXCEPT !.before = op_pkt]
    /\ GdpFrame

GdpGetCerts ==
    /\ op_pc \in { "parsed", "certs1" }
    /\ op_res' = [op_res EXCEPT !.ret = get_certs(op_pkt).ret, !.panic = get_certs(op_pkt).panic,
                                !.before = op_pkt]
    /\ op_pc' = IF op_pc = "parsed" THEN "got" ELSE "got1"
    /\ UNCHANGED op_pkt
    /\ GdpFrame

\* set_certs, and set_certs once more with the same block
GdpSetCerts ==
    /\ op_pc \in { "parsed", "certs1" }
    /\ \E c \in CertBlocks :
          /\ op_pc = "certs1" => c = op_res.arg
          /\ op_pkt' = set_certs(op_pkt, c).pkt
          /\ op_res' = [op_res EXCEPT !.arg = c, !.ok = set_certs(op_pkt, c).ok,
                                      !.before = op_pkt]
    /\ op_pc' = IF op_pc = "parsed" THEN "certs1" ELSE "certs2"
    /\ GdpFrame

GdpNext ==
    \/ GdpTryParse
    \/ GdpTryPush
    \/ GdpSetter
    \/ GdpReconcile
    \/ GdpCreateRibRequest
    \/ GdpHandleRibQuery
    \/ GdpGetCerts
    \/ GdpSetCerts

SpecGdp == GdpInit /\ [][GdpNext]_vars

\* a packet whose data_len field fits the bytes behind its header
Consistent(gdp) == data_len(gdp) <= payload_len(gdp)

\* C15: every packet try_parse accepts has data_len <= payload length, so that
\* get_certs computes a certificate region length payload_len - data_len that
\* is not negative and returns without a panic.
C15_ParsedDataLenInBounds ==
    /\ op_pc = "parsed" => Consistent(op_pkt)
    /\ op_pc = "got" => op_res.panic = "" /\ payload_len(op_pkt) - data_len(op_pkt) >= 0

\* C17: a packet try_parse accepts carries the magic 0x262a, a packet with
\* another magic is rejected and left as it was, a packet carries the magic
\* after setter calls and reconcile, and so does a packet that
\* create_rib_request or handle_rib_query has built.
C17_MagicPreserved ==
    /\ op_pc \in { "parsed", "reconciled", "built" } => field(op_pkt) = MAGIC_NUMBERS
    /\ op_pc = "rejected" => op_pkt = op_in
    /\ (op_pc \in { "parsed", "rejected" } /\ Len(op_in.payload) >= header_len
            /\ field(op_in) # MAGIC_NUMBERS) => op_pc = "rejected"

\* a pushed header, which has no magic yet, has been through setters and reconcile
C17_Witness ==
    /\ op_pc = "reconciled"
    /\ op_res.n = MaxSetters
    /\ field(op_res.before) # MAGIC_NUMBERS
    /\ field(op_pkt) = MAGIC_NUMBERS

\* C19: set_certs(c) on a packet with any certificate region leaves the mbuf
\* with header, data and the serialized c, header and data as they were, and
\* get_certs returns c; a second set_certs(c) changes nothing; get_certs on a
\* packet with nothing behind its data returns the empty block.
C19_SetCertsReplaces ==
    /\ (op_pc = "certs1" /\ Consistent(op_res.before)) =>
          /\ op_res.ok
          /\ Len(op_pkt.payload)
                = header_len + data_len(op_res.before) + Len(serialize(op_res.arg))
          /\ SubSeq(op_pkt.payload, 1, header_len + data_len(op_res.before))
                = SubSeq(op_res.before.payload, 1, header_len + data_len(op_res.before))
          /\ get_certs(op_pkt) = [panic |-> "", ret |-> Ok(op_res.arg)]
    /\ (op_pc = "got1" /\ Consistent(op_pkt)) => op_res.ret = Ok(op_res.arg)
    /\ op_pc = "certs2" => op_pkt = op_res.before
    /\ (op_pc = "got" /\ payload_len(op_pkt) = data_len(op_pkt)) => op_res.ret = Ok(<< >>)

\* set_certs has been called twice on a packet that came with a certificate
\* region, with a block of another length than the one it came with
C19_Witness ==
    /\ op_pc = "certs2"
    /\ op_res.ok
    /\ Consistent(op_in)
    /\ payload_len(op_in) - data_len(op_in) > Len(serialize(op_res.arg))
    /\ op_res.arg # << >>
    /\ data_len(op_in) > 0

\* ---------------------------------------------------------------------------
\* C16, C18: the forwarding table and the transmitted lengths, under Spec
\* ---------------------------------------------------------------------------

\* C16: no entry of the forwarding table of the switch has the RIB address
\* 10.100.1.10 as its target.
C16_NoRibTarget ==
    \A n \in DOMAIN forwarding_table : forwarding_table[n] # RIB_IP

\* C18: every transmitted packet has a UDP length and an IPv4 total length
\* that match the bytes of its buffer.
C18_TxLengthsMatch ==
    \A i \in 1..Len(tx) :
        /\ tx[i].udp_length = UdpHeaderLen + Len(tx[i].payload)
        /\ tx[i].ip_total_length = Ipv4HeaderLen + UdpHeaderLen + Len(tx[i].payload)

\* ---------------------------------------------------------------------------
\* C20: the store with per-entry TTL and the periodic expiry task of
\* prodsetup.rs; the Store is not part of the sources and is modelled as
\* described: a TTL per entry, refreshed on insert, infinite for static routes
\* ---------------------------------------------------------------------------

\* periods an inserted entry lives
EntryTtl == 2

MaxInserts == 3

\* the TTL of a static route
Static == -1

\* the per-entry TTL after an insert of name n: refreshed, a static route stays static
insert_ttl(ttls, n) ==
    [m \in DOMAIN ttls \cup {n} |->
        IF m # n THEN ttls[m]
        ELSE IF n \in DOMAIN ttls /\ ttls[n] = Static THEN Static
        ELSE EntryTtl]

\* the entries whose TTL has elapsed
expired(ttls) == { n \in DOMAIN ttls : ttls[n] = 0 }

\* an expiry task that evicts every entry that is not static
run_active_expire_all_learned(ttls) == { n \in DOMAIN ttls : ttls[n] # Static }

\* Store::run_active_expire: the names it evicts
run_active_expire(ttls) == expired(ttls)

\* one period of time passing for the entries of the store
elapse(ttls) == [n \in DOMAIN ttls |-> IF ttls[n] > 0 THEN ttls[n] - 1 ELSE ttls[n]]

ExpireInit ==
    /\ overflow_checks = FALSE
    /\ forwarding_table \in StaticRoutes
    /\ entry_ttl = [n \in DOMAIN forwarding_table |-> Static]
    /\ inserts = [n \in Names |-> 0]
    /\ evicted = {}
    /\ PipelineIdle
    /\ AeadIdle
    /\ UnitIdle
    /\ RaceIdle

ExpireFrame == UNCHANGED << overflow_checks, pipeline_vars, aead_vars, unit_vars, race_vars >>

\* an insert into the store, as handle_rib_reply does for a RibReply
ExpireInsert ==
    /\ \E k \in Names, v \in ReplyValues :
          /\ inserts[GdpName(1)] + inserts[GdpName(2)] < MaxInserts
          /\ forwarding_table' = [n \in DOMAIN forwarding_table \cup {k} |->
                                     IF n = k THEN v ELSE forwarding_table[n]]
          /\ entry_ttl' = insert_ttl(entry_ttl, k)
          /\ inserts' = [inserts EXCEPT ![k] = @ + 1]
    /\ UNCHANGED evicted
    /\ ExpireFrame

\* a period passes
ExpireTick ==
    /\ \E n \in DOMAIN entry_ttl : entry_ttl[n] > 0
    /\ entry_ttl' = elapse(entry_ttl)
    /\ UNCHANGED << forwarding_table, inserts, evicted >>
    /\ ExpireFrame

\* the periodic task runs store.run_active_expire()
ExpireTask ==
    /\ evicted' = run_active_expire(entry_ttl)
    /\ forwarding_table' = [n \in DOMAIN forwarding_table \ run_active_expire(entry_ttl) |->
                               forwarding_table[n]]
    /\ entry_ttl' = [n \in DOMAIN entry_ttl \ run_active_expire(entry_ttl) |-> entry_ttl[n]]
    /\ UNCHANGED inserts
    /\ ExpireFrame

ExpireNext == ExpireInsert \/ ExpireTick \/ ExpireTask

SpecExpire == ExpireInit /\ [][ExpireNext]_vars

\* time passes, and the runtime runs the periodic task again and again
SpecExpireFair == SpecExpire /\ WF_vars(ExpireTick) /\ WF_vars(ExpireTask)

\* a step removes only entries whose TTL has elapsed, and no static route
OnlyExpiredEvicted ==
    \A n \in DOMAIN forwarding_table :
        entry_ttl[n] # 0 => n \in DOMAIN forwarding_table'

\* a static route stays, and stays static
StaticKept ==
    \A n \in DOMAIN forwarding_table :
        entry_ttl[n] = Static => (n \in DOMAIN forwarding_table' /\ entry_ttl'[n] = Static)

\* an insert of a name leaves it in the table with a full TTL
InsertRefreshes ==
    \A n \in Names :
        (inserts'[n] > inserts[n] /\ ~(n \in DOMAIN entry_ttl /\ entry_ttl[n] = Static)) =>
            (n \in DOMAIN forwarding_table' /\ entry_ttl'[n] = EntryTtl)

Workers == { 1, 2 }

RaceName == GdpName(1)

RaceValues == { Ipv4Addr(10, 0, 0, 2), Ipv4Addr(10, 0, 0, 3) }

RaceForwardFrames ==
    { Datagram(aead_encrypt(GdpBytes(t, Forward, GdpName(2), RaceName, GdpName(2), 0, << >>))) :
        t \in { 1, DefaultTtl } }

RaceReplyFrames ==
    { Datagram(aead_encrypt(GdpBytes(DefaultTtl, RibReply, GdpName(1), GdpName(2), GdpName(1),
                                     KeyValueLen, RaceName \o BE32(v)))) :
        v \in RaceValues }

\* a worker: where it is, the packet it holds, what it has transmitted for it,
\* and the store as it was when the selector and when the arm read it
IdleWorker ==
    [pc |-> "poll", pkt |-> NewUdp, tx |-> << >>, at_select |-> EmptyTable, at_arm |-> EmptyTable]

RaceInit ==
    /\ overflow_checks \in BOOLEAN
    /\ forwarding_table = EmptyTable
    /\ entry_ttl = EmptyTable
    /\ inserts = [n \in Names |-> 0]
    /\ evicted = {}
    /\ PipelineIdle
    /\ AeadIdle
    /\ UnitIdle
    /\ worker = [w \in Workers |-> IdleWorker]
    /\ nacked = {}
    /\ learned = EmptyTable

RaceFrame == UNCHANGED << overflow_checks, pipeline_vars, aead_vars, unit_vars >>

\* the worker after the ingress stages of a Forward packet and the selector
selected(b, store) ==
    IF b.panic # "" THEN [IdleWorker EXCEPT !.pc = "panicked"]
    ELSE IF b.out = << >> THEN [IdleWorker EXCEPT !.pc = "done"]
    ELSE [IdleWorker EXCEPT !.pc = IF forward_selector(b.out[1], store) THEN "hit" ELSE "miss",
                            !.pkt = b.out[1], !.at_select = store]

\* a worker polls a Forward packet and runs it up to the group_by selector
RaceSelect(w) ==
    /\ worker[w].pc \in { "poll", "done" }
    /\ \E f \in RaceForwardFrames :
          worker' = [worker EXCEPT ![w] = selected(ingress(f), forwarding_table)]
    /\ UNCHANGED << forwarding_table, expire_vars, nacked, learned >>
    /\ RaceFrame

\* what the arm of the group lets through
arm_out(wk, store) == IF wk.pc = "hit" THEN hit_arm(wk.pkt, store) ELSE miss_arm(wk.pkt)

\* a worker runs the arm of the group, encrypts and sends
RaceArm(w) ==
    /\ worker[w].pc \in { "hit", "miss" }
    /\ \E e \in { egress(arm_out(worker[w], forwarding_table)) } :
          worker' = [worker EXCEPT ![w].pc = IF e.panic # "" THEN "panicked" ELSE "done",
                                   ![w].tx = e.out,
                                   ![w].at_arm = forwarding_table]
    /\ nacked' = IF worker[w].pc = "miss" /\ miss_arm(worker[w].pkt) # << >>
                 THEN nacked \cup { dst(worker[w].pkt) } ELSE nacked
    /\ UNCHANGED << forwarding_table, expire_vars, learned >>
    /\ RaceFrame

\* a worker polls a RibReply and installs it; the insert gives the entry a full TTL
RaceRibReply(w) ==
    /\ worker[w].pc \in { "poll", "done" }
    /\ inserts[GdpName(1)] + inserts[GdpName(2)] < MaxInserts
    /\ \E f \in RaceReplyFrames : \E b \in { ingress(f) } :
          IF b.panic # "" \/ b.out = << >>
          THEN /\ worker' = [worker EXCEPT ![w] = selected(b, forwarding_table)]
               /\ UNCHANGED << forwarding_table, entry_ttl, inserts, learned >>
          ELSE /\ worker' = [worker EXCEPT ![w] = [IdleWorker EXCEPT !.pc = "done", !.pkt = b.out[1]]]
               /\ forwarding_table' = handle_rib_reply(b.out[1], forwarding_table)
               /\ entry_ttl' = insert_ttl(entry_ttl, key(b.out[1]))
               /\ inserts' = [inserts EXCEPT ![key(b.out[1])] = @ + 1]
               /\ learned' = IF key(b.out[1]) \in nacked
                             THEN handle_rib_reply(b.out[1], learned) ELSE learned
    /\ UNCHANGED << evicted, nacked >>
    /\ RaceFrame

RaceNext ==
    \/ \E w \in Workers : RaceSelect(w)
    \/ \E w \in Workers : RaceArm(w)
    \/ \E w \in Workers : RaceRibReply(w)
    \/ ExpireTick
    \/ ExpireTask

SpecRace == RaceInit /\ [][RaceNext]_vars

\* worker w is through with a Forward packet
ForwardDone(w) ==
    /\ worker[w].pc = "done"
    /\ worker[w].pkt # NewUdp
    /\ worker[w].pkt.payload[OffAction + 1] = Forward

\* the one packet worker w transmitted, decrypted
WorkerTx(w) == [worker[w].tx[1] EXCEPT !.payload = unwrap(aead_decrypt(@))]

\* the addresses the name of the packet of w was bound to when w read the store
BoundTo(w) ==
    { t[dst(worker[w].pkt)] : t \in { s \in { worker[w].at_select, worker[w].at_arm } :
                                          dst(worker[w].pkt) \in DOMAIN s } }

\* C21: under every interleaving with the writers of the store, a Forward
\* packet with ttl > 0 yields exactly one transmitted packet, forwarded to an
\* address its dst name was bound to, or a Nack.
C21_ExactlyOneTransmitted ==
    \A w \in Workers :
        (ForwardDone(w) /\ ttl(worker[w].pkt) > 0) =>
            /\ Len(worker[w].tx) = 1
            /\ is_ok(aead_decrypt(worker[w].tx[1].payload))
            /\ \/ action(WorkerTx(w)) = Ok(Nack)
               \/ (action(WorkerTx(w)) = Ok(Forward) /\ worker[w].tx[1].ip_dst \in BoundTo(w))

\* worker w read the entry name -> learned[name] both in the selector and in
\* the arm: the packet was processed while the learned entry was in the store
LearnedInPlace(w) ==
    /\ dst(worker[w].pkt) \in nacked
    /\ dst(worker[w].pkt) \in DOMAIN learned
    /\ \A s \in { worker[w].at_select, worker[w].at_arm } :
          /\ dst(worker[w].pkt) \in DOMAIN s
          /\ s[dst(worker[w].pkt)] = learned[dst(worker[w].pkt)]

====
